---------------------------- MODULE Spec2Model ----------------------------
(***************************************************************************)
(* Model of the Immich stacking tool (stack.py).                           *)
(*                                                                         *)
(* A Python str is a sequence of one-character strings, so that basename,  *)
(* splitext, lower, the CANONICAL_RE match and the delimiter split are     *)
(* computed character by character, as the library functions compute them. *)
(***************************************************************************)
EXTENDS Integers, Sequences, FiniteSets, TLC

VARIABLES
    pc,          \* position of the running call / of the main program
    filename,    \* argument of canonical_basename
    canon,       \* canonical_basename(filename)
    recanon,     \* canonical_basename(canon)
    filenames,   \* argument of is_similar_filename
    ret,         \* frame of is_similar_filename at its exit
    duplicates,  \* candidate groups (argument of filter_dupe_pairs)
    dupe_pairs,  \* outcome of filter_dupe_pairs
    album,       \* "assets" of the album returned by the server
    args,        \* parsed command line
    todo,        \* album ids still to be fetched by the main program
    k,           \* number of pairs the main loop has handled
    sent         \* stack requests received by the server, in order

vars == <<pc, filename, canon, recanon, filenames, ret, duplicates,
          dupe_pairs, album, args, todo, k, sent>>

-----------------------------------------------------------------------------
(* Characters and str methods                                              *)

UpperChars == <<"A","B","C","D","E","F","G","H","I","J","K","L","M","N","O","P","Q","R","S","T","U","V","W","X","Y","Z">>
LowerChars == <<"a","b","c","d","e","f","g","h","i","j","k","l","m","n","o","p","q","r","s","t","u","v","w","x","y","z">>
DigitChars == <<"0","1","2","3","4","5","6","7","8","9">>

\* code point order of the characters used, for str comparison
CodePointOrder == <<"-",".","/">> \o DigitChars \o UpperChars \o <<"_">> \o LowerChars

Range(s) == {s[i] : i \in 1..Len(s)}

\* [A-Za-z]
Letters == Range(UpperChars) \cup Range(LowerChars)
\* \d
Digits == Range(DigitChars)

\* the rank of every character in that order
OrdOf == [c \in Range(CodePointOrder) |->
             CHOOSE i \in 1..Len(CodePointOrder) : CodePointOrder[i] = c]
Ord(c) == OrdOf[c]

\* the lowercase letter of every uppercase letter
LowerOf == [c \in Range(UpperChars) |->
               LowerChars[CHOOSE i \in 1..Len(UpperChars) : UpperChars[i] = c]]

\* str.lower() on one character
LowerChar(c) == IF c \in DOMAIN LowerOf THEN LowerOf[c] ELSE c

\* str.lower()
lower(s) == [i \in 1..Len(s) |-> LowerChar(s[i])]

\* str.rfind(c) + 1: the last position of c in p, 0 when absent
RECURSIVE rfind(_, _)
rfind(p, c) ==
    IF p = <<>> THEN 0
    ELSE IF p[Len(p)] = c THEN Len(p)
    ELSE rfind(SubSeq(p, 1, Len(p) - 1), c)

\* str < str (lexicographic by code point)
RECURSIVE StrLess(_, _)
StrLess(a, b) ==
    IF b = <<>> THEN FALSE
    ELSE IF a = <<>> THEN TRUE
    ELSE IF Ord(a[1]) # Ord(b[1]) THEN Ord(a[1]) < Ord(b[1])
    ELSE StrLess(Tail(a), Tail(b))

-----------------------------------------------------------------------------
(* os.path                                                                 *)

\* os.path.basename(p): what follows the last "/"
basename(p) == SubSeq(p, rfind(p, "/") + 1, Len(p))

\* os.path.splitext(p) = <<root, ext>>: ext starts at the last "." that
\* follows the last "/", unless only dots precede it in the last component
splitext(p) ==
    LET sepIndex == rfind(p, "/")
        dotIndex == rfind(p, ".")
    IN  IF /\ dotIndex > sepIndex
           /\ \E i \in (sepIndex + 1)..(dotIndex - 1) : p[i] # "."
        THEN <<SubSeq(p, 1, dotIndex - 1), SubSeq(p, dotIndex, Len(p))>>
        ELSE <<p, <<>>>>

-----------------------------------------------------------------------------
(* CANONICAL_RE = ^([A-Za-z]+_\d{8}_\d+)                                   *)

\* the {8} of CANONICAL_RE
DateDigits == 8

\* length of the longest run of characters of class cls starting at s[from]
RECURSIVE RunLen(_, _, _)
RunLen(s, from, cls) ==
    IF from > Len(s) \/ s[from] \notin cls THEN 0
    ELSE 1 + RunLen(s, from + 1, cls)

\* CANONICAL_RE with \d in place of the final \d+
CANONICAL_RE_match_one_digit(stem) ==
    LET i == RunLen(stem, 1, Letters)
        d == RunLen(stem, i + 2, Digits)
        j == RunLen(stem, i + DateDigits + 3, Digits)
    IN  IF /\ i >= 1
           /\ Len(stem) >= i + 1 /\ stem[i + 1] = "_"
           /\ d >= DateDigits
           /\ Len(stem) >= i + DateDigits + 2 /\ stem[i + DateDigits + 2] = "_"
           /\ j >= 1
        THEN i + DateDigits + 2 + 1
        ELSE 0

\* CANONICAL_RE.match(stem): the length of group(1), 0 for no match.  The
\* greedy letter run cannot give a letter back (a "_" must follow it), and
\* the date is DateDigits digits followed by "_".
CANONICAL_RE_match(stem) ==
    LET i == RunLen(stem, 1, Letters)
        d == RunLen(stem, i + 2, Digits)
        j == RunLen(stem, i + DateDigits + 3, Digits)
    IN  IF /\ i >= 1
           /\ Len(stem) >= i + 1 /\ stem[i + 1] = "_"
           /\ d >= DateDigits
           /\ Len(stem) >= i + DateDigits + 2 /\ stem[i + DateDigits + 2] = "_"
           /\ j >= 1
        THEN i + DateDigits + 2 + j
        ELSE 0

\* re.split with rsplit semantics: what precedes the last "." or "-"
SplitLast(stem) ==
    LET S == {i \in 1..Len(stem) : stem[i] \in {".", "-"}}
    IN  IF S = {} THEN stem
        ELSE SubSeq(stem, 1, (CHOOSE i \in S : \A j \in S : j <= i) - 1)

\* re.split(r'[.-]', stem, maxsplit=1)[0]: what precedes the first "." or "-"
RECURSIVE SplitFirst(_)
SplitFirst(stem) ==
    IF stem = <<>> \/ stem[1] \in {".", "-"} THEN <<>>
    ELSE <<stem[1]>> \o SplitFirst(Tail(stem))

\* is_similar_filename.canonical_basename
canonical_basename(f) ==
    LET stem == splitext(basename(f))[1]
        match == CANONICAL_RE_match(stem)
    IN  IF match > 0 THEN SubSeq(stem, 1, match)
        ELSE SplitFirst(stem)

-----------------------------------------------------------------------------
(* is_similar_filename                                                     *)

\* is_similar_filename that only asks for two filenames or more
is_similar_filename_truncating(names) ==
    IF Len(names) < 2
    THEN [exc |-> "ValueError", val |-> FALSE, basenames |-> <<>>, exts |-> <<>>]
    ELSE LET basenames == [i \in 1..2 |-> canonical_basename(names[i])]
             exts == [i \in 1..2 |-> lower(splitext(names[i])[2])]
             val == IF basenames[1] = <<>> \/ basenames[2] = <<>> THEN FALSE
                    ELSE IF basenames[1] # basenames[2] THEN FALSE
                    ELSE IF exts[1] = exts[2] THEN FALSE
                    ELSE TRUE
         IN  [exc |-> "none", val |-> val, basenames |-> basenames, exts |-> exts]

\* is_similar_filename that compares the extensions as written
is_similar_filename_cased(names) ==
    IF Len(names) # 2
    THEN [exc |-> "ValueError", val |-> FALSE, basenames |-> <<>>, exts |-> <<>>]
    ELSE LET basenames == [i \in 1..2 |-> canonical_basename(names[i])]
             exts == [i \in 1..2 |-> splitext(names[i])[2]]
             val == IF basenames[1] = <<>> \/ basenames[2] = <<>> THEN FALSE
                    ELSE IF basenames[1] # basenames[2] THEN FALSE
                    ELSE IF exts[1] = exts[2] THEN FALSE
                    ELSE TRUE
         IN  [exc |-> "none", val |-> val, basenames |-> basenames, exts |-> exts]

\* the frame of is_similar_filename when it returns or raises
is_similar_filename(names) ==
    IF Len(names) # 2
    THEN [exc |-> "ValueError", val |-> FALSE, basenames |-> <<>>, exts |-> <<>>]
    ELSE LET basenames == [i \in 1..2 |-> canonical_basename(names[i])]
             exts == [i \in 1..2 |-> lower(splitext(names[i])[2])]
             val == IF basenames[1] = <<>> \/ basenames[2] = <<>> THEN FALSE
                    ELSE IF basenames[1] # basenames[2] THEN FALSE
                    ELSE IF exts[1] = exts[2] THEN FALSE
                    ELSE TRUE
         IN  [exc |-> "none", val |-> val, basenames |-> basenames, exts |-> exts]

-----------------------------------------------------------------------------
(* JSON objects are functions from their keys; dict.get and "or"           *)

\* Python's None (no str: a str holds one-character elements only)
None == <<"None">>

\* d.get(key, default)
Get(d, key, default) == IF key \in DOMAIN d THEN d[key] ELSE default

\* x or y
Or(x, y) == IF x # None /\ x # <<>> THEN x ELSE y

PREFERRED_PRIMARY_EXTS == {<<".","j","p","g">>, <<".","j","p","e","g">>, <<".","j","p","e">>}

-----------------------------------------------------------------------------
(* filter_dupe_pairs                                                       *)

\* the name with "filename" tried before "originalPath"
effective_name_filename_first(asset) ==
    Or(Or(Get(asset, "filename", None), Get(asset, "originalPath", None)), <<>>)

\* asset.get("originalPath") or asset.get("filename") or ""
effective_name(asset) ==
    Or(Or(Get(asset, "originalPath", None), Get(asset, "filename", None)), <<>>)

\* primary_index that does not look at the first extension
primary_index_second_preferred(exts) ==
    IF exts[2] \in PREFERRED_PRIMARY_EXTS THEN 1 ELSE 0

\* primary_index (0-based, as in the source) from the two lowercased extensions
primary_index(exts) ==
    IF exts[2] \in PREFERRED_PRIMARY_EXTS /\ exts[1] \notin PREFERRED_PRIMARY_EXTS THEN 1
    ELSE IF exts[1] \in PREFERRED_PRIMARY_EXTS /\ exts[2] \notin PREFERRED_PRIMARY_EXTS THEN 0
    ELSE 0

\* the iteration with the guard len(assets) < 2
filter_group_two_or_more(group) ==
    LET assets == Get(group, "assets", <<>>)
    IN  IF Len(assets) < 2 THEN [exc |-> "none", val |-> <<>>]
        ELSE
        LET names == [i \in 1..Len(assets) |-> effective_name(assets[i])]
            ids == [i \in 1..Len(assets) |-> Get(assets[i], "id", None)]
            sim == is_similar_filename(names)
        IN  IF sim.exc # "none" THEN [exc |-> sim.exc, val |-> <<>>]
            ELSE IF ~sim.val THEN [exc |-> "none", val |-> <<>>]
            ELSE
            LET exts == [i \in 1..Len(names) |-> lower(splitext(names[i])[2])]
                p == primary_index(exts)
            IN  [exc |-> "none",
                 val |-> << [ids   |-> <<ids[p + 1], ids[(1 - p) + 1]>>,
                             paths |-> <<names[p + 1], names[(1 - p) + 1]>>,
                             exts  |-> <<exts[p + 1], exts[(1 - p) + 1]>>] >>]

\* one iteration of the loop of filter_dupe_pairs: the exception it raises, if
\* any, and the results it appends
filter_group(group) ==
    LET assets == Get(group, "assets", <<>>)
    IN  IF Len(assets) # 2 THEN [exc |-> "none", val |-> <<>>]
        ELSE
        LET names == [i \in 1..Len(assets) |-> effective_name(assets[i])]
            ids == [i \in 1..Len(assets) |-> Get(assets[i], "id", None)]
            sim == is_similar_filename(names)
        IN  IF sim.exc # "none" THEN [exc |-> sim.exc, val |-> <<>>]
            ELSE IF ~sim.val THEN [exc |-> "none", val |-> <<>>]
            ELSE
            LET exts == [i \in 1..Len(names) |-> lower(splitext(names[i])[2])]
                p == primary_index(exts)
            IN  [exc |-> "none",
                 val |-> << [ids   |-> <<ids[p + 1], ids[(1 - p) + 1]>>,
                             paths |-> <<names[p + 1], names[(1 - p) + 1]>>,
                             exts  |-> <<exts[p + 1], exts[(1 - p) + 1]>>] >>]

RECURSIVE filter_loop(_, _)

\* the loop with results.insert(0, ...) in place of results.append(...)
filter_loop_prepend(groups, results) ==
    IF groups = <<>> THEN [exc |-> "none", val |-> results]
    ELSE LET r == filter_group(Head(groups))
         IN  IF r.exc # "none" THEN [exc |-> r.exc, val |-> <<>>]
             ELSE filter_loop(Tail(groups), r.val \o results)

\* the loop of filter_dupe_pairs over the groups left, results being the list
\* built so far; an exception leaves the loop
filter_loop(groups, results) ==
    IF groups = <<>> THEN [exc |-> "none", val |-> results]
    ELSE LET r == filter_group(Head(groups))
         IN  IF r.exc # "none" THEN [exc |-> r.exc, val |-> <<>>]
             ELSE filter_loop(Tail(groups), results \o r.val)

filter_dupe_pairs(dups) == filter_loop(dups, <<>>)

-----------------------------------------------------------------------------
(* get_assets_in_album                                                     *)

\* insertion of x behind every element whose key is not greater (stable)
RECURSIVE InsertSorted(_, _)
InsertSorted(x, s) ==
    IF s = <<>> THEN <<x>>
    ELSE IF StrLess(x["originalPath"], s[1]["originalPath"]) THEN <<x>> \o s
    ELSE <<s[1]>> \o InsertSorted(x, Tail(s))

\* sorted(assets, key=lambda pic: pic["originalPath"])
RECURSIVE sorted(_)
sorted(assets) ==
    IF assets = <<>> THEN <<>>
    ELSE InsertSorted(assets[Len(assets)], sorted(SubSeq(assets, 1, Len(assets) - 1)))

\* get_assets_in_album without the sort
get_assets_in_album_unsorted(albumAssets) ==
    LET assets == albumAssets
    IN  [i \in 1..(Len(assets) - 1) |->
            [duplicateId |-> i, assets |-> <<assets[i], assets[i + 1]>>]]

\* what get_assets_in_album returns for an album whose "assets" are given
get_assets_in_album(albumAssets) ==
    LET assets == sorted(albumAssets)
    IN  [i \in 1..(Len(assets) - 1) |->
            [duplicateId |-> i, assets |-> <<assets[i], assets[i + 1]>>]]

-----------------------------------------------------------------------------
(* Inputs                                                                  *)

\* sequences over S of length at most n
SeqsUpTo(S, n) == UNION {[1..m -> S] : m \in 0..n}

RECURSIVE Concat(_)
Concat(ss) == IF ss = <<>> THEN <<>> ELSE Head(ss) \o Concat(Tail(ss))

\* pieces a filename given to canonical_basename is made of: a device prefix
\* one digit short of a date, and the characters the code tells apart
Pieces == {<<"X","_","2","0","2","5","0","6","1">>, <<"7">>, <<"_">>, <<".">>,
           <<"-">>, <<"/">>, <<"a">>}
MaxPieces == 5
CanonNames == {Concat(ps) : ps \in SeqsUpTo(Pieces, MaxPieces)}

\* the filenames of tests/test_stack.py
TestNames == {
    <<"I","M","G","1","2","3",".","J","P","G">>,
    <<"I","M","G","1","2","3",".","R","A","W">>,
    <<"I","M","G","1","2","3",".","D","N","F">>,
    <<"I","M","G","1","2","3",".","r","a","w">>,
    <<"i","m","g","1","2","3",".","r","a","w">>,
    <<"I","M","G","1","2","3",".","j","p","g">>,
    <<"I","M","G","1","2","4",".","R","A","W">>,
    <<"P","X","L","_","2","0","2","5","0","6","1","5","_","1","4","3","6","2","1","0","2","5",".","R","A","W","-","0","2",".","O","R","I","G","I","N","A","L",".","d","n","g">>,
    <<"P","X","L","_","2","0","2","5","0","6","1","5","_","1","4","3","6","2","1","0","2","5",".","R","A","W","-","0","1",".","C","O","V","E","R",".","j","p","g">>,
    <<"D","S","C","0","0","0","1","-","e","d","i","t",".","t","i","f">>,
    <<"D","S","C","0","0","0","1",".","j","p","g">>,
    <<"e","x","t","r","a",".","p","n","g">>}
\* no name, no stem, no extension, a dot in the directory
EdgeNames == {<<>>, <<".","j","p","g">>, <<"I","M","G","1","2","3">>, <<"d",".","x","/","I","M","G","1","2","3",".","J","P","G">>}
MatchNames == TestNames \cup EdgeNames
MaxArity == 3

\* assets as the server describes them: "id", and optionally "originalPath"
\* and "filename"
assetA == [id |-> <<"A">>, originalPath |-> <<"d","/","a",".","J","P","G">>, filename |-> <<"b",".","d","n","g">>]
assetB == [id |-> <<"B">>, originalPath |-> <<"a",".","d","n","g">>]
assetC == [id |-> <<"C">>, originalPath |-> <<>>, filename |-> <<"a",".","j","p","e">>]
assetD == [id |-> <<"D">>, filename |-> <<"a",".","c","r","2">>]
assetE == [id |-> <<"E">>]
assetF == [id |-> <<"F">>, originalPath |-> <<"b",".","d","n","g">>, filename |-> <<"a",".","J","P","G">>]
assetG == [id |-> <<"G">>, originalPath |-> <<"a",".","d","n","g">>]
assetH == [id |-> <<"H">>, originalPath |-> <<"a",".","J","P","G">>]

\* a group of the duplicates feed
Group(assets) == [duplicateId |-> 0, assets |-> assets]
\* a group that has no "assets"
NoAssets == [duplicateId |-> 0]

\* groups given to filter_dupe_pairs: every pair of the assets whose names
\* share a basename, pairs with the nameless asset and with the asset of
\* another basename in either place, a group without "assets", and one
\* group of every other number of assets up to MaxAssets (assetB and assetA
\* in turn: its first two assets are a pair that matches)
SiblingAssets == {assetA, assetB, assetC, assetD}
MaxAssets == 3
MaxGroups == 2
Cluster(m) == Group([i \in 1..m |-> IF i % 2 = 1 THEN assetB ELSE assetA])
FilterGroups ==
    {NoAssets}
    \cup {Group(a) : a \in [1..2 -> SiblingAssets]}
    \cup {Group(<<assetE, assetB>>), Group(<<assetA, assetE>>),
          Group(<<assetF, assetB>>), Group(<<assetA, assetF>>)}
    \cup {Cluster(m) : m \in (0..MaxAssets) \ {2}}

\* albums: assets in the order the server lists them, each listed once
Distinct(s) == \A i, j \in 1..Len(s) : i # j => s[i] # s[j]
AlbumAssets == {assetA, assetB, assetF, assetG, assetH}
MaxAlbum == 4
Albums == {a \in SeqsUpTo(AlbumAssets, MaxAlbum) : Distinct(a)}

\* what the server may answer to the main program
MainAlbumAssets == {assetH, assetB, assetF}
MaxMainAlbum == 3
MainAlbums == {a \in SeqsUpTo(MainAlbumAssets, MaxMainAlbum) : Distinct(a)}
MainGroups == {Group(<<assetB, assetA>>), Group(<<assetC, assetD>>),
               Group(<<assetA, assetF>>), Group(<<assetA>>), NoAssets}
MaxFeed == 3
MainFeeds == SeqsUpTo(MainGroups, MaxFeed)
AlbumIds == {"a1", "a2"}
MaxAlbumArgs == 2

-----------------------------------------------------------------------------
(* Values of the variables a specification does not use                    *)

NoFrame == [exc |-> "none", val |-> FALSE, basenames |-> <<>>, exts |-> <<>>]
NoPairs == [exc |-> "none", val |-> <<>>]
NoArgs == [dry_run |-> TRUE, album |-> <<>>, all_albums |-> FALSE]

IdleCanon == filename = <<>> /\ canon = <<>> /\ recanon = <<>>
IdleMatcher == filenames = <<>> /\ ret = NoFrame
IdleFilter == duplicates = <<>> /\ dupe_pairs = NoPairs
IdleMain == album = <<>> /\ args = NoArgs /\ todo = <<>> /\ k = 0 /\ sent = <<>>

canonVars == <<filename, canon, recanon>>
matcherVars == <<filenames, ret>>
mainVars == <<album, args, todo, k, sent>>

-----------------------------------------------------------------------------
(* canonical_basename, applied to a filename and then to its own result    *)

InitCanon ==
    /\ pc = "canon"
    /\ filename \in CanonNames \cup MatchNames
    /\ canon = <<>> /\ recanon = <<>>
    /\ IdleMatcher /\ IdleFilter /\ IdleMain

Canonicalize ==
    /\ pc = "canon"
    /\ canon' = canonical_basename(filename)
    /\ pc' = "recanon"
    /\ UNCHANGED <<filename, recanon, matcherVars, duplicates, dupe_pairs, mainVars>>

Recanonicalize ==
    /\ pc = "recanon"
    /\ recanon' = canonical_basename(canon)
    /\ pc' = "returned"
    /\ UNCHANGED <<filename, canon, matcherVars, duplicates, dupe_pairs, mainVars>>

NextCanon == Canonicalize \/ Recanonicalize

SpecCanon == InitCanon /\ [][NextCanon]_vars

-----------------------------------------------------------------------------
(* is_similar_filename, called with a list of filenames                    *)

InitMatcher ==
    /\ pc = "call"
    /\ filenames \in SeqsUpTo(MatchNames, MaxArity)
    /\ ret = NoFrame
    /\ IdleCanon /\ IdleFilter /\ IdleMain

CallIsSimilar ==
    /\ pc = "call"
    /\ ret' = is_similar_filename(filenames)
    /\ pc' = IF ret'.exc = "none" THEN "returned" ELSE "raised"
    /\ UNCHANGED <<filenames, canonVars, duplicates, dupe_pairs, mainVars>>

NextMatcher == CallIsSimilar

SpecMatcher == InitMatcher /\ [][NextMatcher]_vars

-----------------------------------------------------------------------------
(* filter_dupe_pairs, called with a list of groups                         *)

InitFilter ==
    /\ pc = "call"
    /\ duplicates \in SeqsUpTo(FilterGroups, MaxGroups)
    /\ dupe_pairs = NoPairs
    /\ IdleCanon /\ IdleMatcher /\ IdleMain

CallFilter ==
    /\ pc = "call"
    /\ dupe_pairs' = filter_dupe_pairs(duplicates)
    /\ pc' = IF dupe_pairs'.exc = "none" THEN "returned" ELSE "raised"
    /\ UNCHANGED <<duplicates, canonVars, matcherVars, mainVars>>

NextFilter == CallFilter

SpecFilter == InitFilter /\ [][NextFilter]_vars

-----------------------------------------------------------------------------
(* get_assets_in_album, on the album the server returned                   *)

InitAlbum ==
    /\ pc = "call"
    /\ album \in Albums
    /\ duplicates = <<>> /\ dupe_pairs = NoPairs
    /\ args = NoArgs /\ todo = <<>> /\ k = 0 /\ sent = <<>>
    /\ IdleCanon /\ IdleMatcher

CallGetAssetsInAlbum ==
    /\ pc = "call"
    /\ duplicates' = get_assets_in_album(album)
    /\ pc' = "returned"
    /\ UNCHANGED <<album, args, todo, k, sent, dupe_pairs, canonVars, matcherVars>>

NextAlbum == CallGetAssetsInAlbum

SpecAlbum == InitAlbum /\ [][NextAlbum]_vars

-----------------------------------------------------------------------------
(* The main program.  Every request to the server may fail, and then       *)
(* raise_for_status ends the program.                                      *)

Init ==
    /\ pc = "start"
    /\ args \in [dry_run : BOOLEAN, album : SeqsUpTo(AlbumIds, MaxAlbumArgs),
                 all_albums : BOOLEAN]
    /\ album = <<>> /\ todo = <<>> /\ k = 0 /\ sent = <<>>
    /\ duplicates = <<>> /\ dupe_pairs = NoPairs
    /\ IdleCanon /\ IdleMatcher

\* load_config, then the choice of the candidate source
LoadConfig ==
    /\ pc = "start"
    /\ \/ /\ pc' = "failed"
          /\ todo' = todo
       \/ /\ args.album # <<>>
          /\ todo' = args.album
          /\ pc' = "albums"
       \/ /\ args.album = <<>> /\ args.all_albums
          /\ todo' = todo
          /\ pc' = "all_albums"
       \/ /\ args.album = <<>> /\ ~args.all_albums
          /\ todo' = todo
          /\ pc' = "duplicates"
    /\ UNCHANGED <<album, args, k, sent, duplicates, dupe_pairs, canonVars, matcherVars>>

\* get_all_album_ids
GetAllAlbumIds ==
    /\ pc = "all_albums"
    /\ \/ /\ pc' = "failed"
          /\ todo' = todo
       \/ /\ \E ids \in SeqsUpTo(AlbumIds, MaxAlbumArgs) : todo' = ids
          /\ pc' = "albums"
    /\ UNCHANGED <<album, args, k, sent, duplicates, dupe_pairs, canonVars, matcherVars>>

\* duplicates += get_assets_in_album(album_id), for the next album id
GetAssetsInAlbum ==
    /\ pc = "albums" /\ todo # <<>>
    /\ \/ /\ pc' = "failed"
          /\ UNCHANGED <<album, todo, duplicates>>
       \/ /\ \E a \in MainAlbums : album' = a
          /\ duplicates' = duplicates \o get_assets_in_album(album')
          /\ todo' = Tail(todo)
          /\ pc' = pc
    /\ UNCHANGED <<args, k, sent, dupe_pairs, canonVars, matcherVars>>

\* get_duplicates
GetDuplicates ==
    /\ pc = "duplicates"
    /\ \/ /\ pc' = "failed"
          /\ duplicates' = duplicates
       \/ /\ \E d \in MainFeeds : duplicates' = d
          /\ pc' = "fetched"
    /\ UNCHANGED <<album, args, todo, k, sent, dupe_pairs, canonVars, matcherVars>>

\* dupe_pairs = filter_dupe_pairs(duplicates)
FilterDupePairs ==
    /\ \/ pc = "fetched"
       \/ pc = "albums" /\ todo = <<>>
    /\ dupe_pairs' = filter_dupe_pairs(duplicates)
    /\ pc' = IF dupe_pairs'.exc = "none" THEN "pairs" ELSE "failed"
    /\ UNCHANGED <<album, args, todo, k, sent, duplicates, canonVars, matcherVars>>

\* one pass of "for pair in dupe_pairs" under --dry-run: only prints
PrintPair ==
    /\ pc = "pairs" /\ k < Len(dupe_pairs.val)
    /\ args.dry_run
    /\ k' = k + 1
    /\ UNCHANGED <<pc, album, args, todo, sent, duplicates, dupe_pairs, canonVars, matcherVars>>

\* the pass that posts whatever the mode
StackPair_any_mode ==
    /\ pc = "pairs" /\ k < Len(dupe_pairs.val)
    /\ sent' = Append(sent, dupe_pairs.val[k + 1].ids)
    /\ \/ pc' = "failed" /\ k' = k
       \/ pc' = pc /\ k' = k + 1
    /\ UNCHANGED <<album, args, todo, duplicates, dupe_pairs, canonVars, matcherVars>>

\* one pass of "for pair in dupe_pairs" under --stack: stack_assets posts
\* pair["ids"], and the answer may be an error
StackPair ==
    /\ pc = "pairs" /\ k < Len(dupe_pairs.val)
    /\ ~args.dry_run
    /\ sent' = Append(sent, dupe_pairs.val[k + 1].ids)
    /\ \/ pc' = "failed" /\ k' = k
       \/ pc' = pc /\ k' = k + 1
    /\ UNCHANGED <<album, args, todo, duplicates, dupe_pairs, canonVars, matcherVars>>

\* the loop is over (or there was no pair): the program ends
Finish ==
    /\ pc = "pairs" /\ k = Len(dupe_pairs.val)
    /\ pc' = "done"
    /\ UNCHANGED <<album, args, todo, k, sent, duplicates, dupe_pairs, canonVars, matcherVars>>

Next ==
    \/ LoadConfig
    \/ GetAllAlbumIds
    \/ GetAssetsInAlbum
    \/ GetDuplicates
    \/ FilterDupePairs
    \/ PrintPair
    \/ StackPair
    \/ Finish

Spec == Init /\ [][Next]_vars

-----------------------------------------------------------------------------
(* The arity contract and the decision of is_similar_filename              *)

\* C1: is_similar_filename raises ValueError for every list whose length is
\* not 2, having computed neither a basename nor an extension, and returns a
\* boolean without raising for every list of length 2.
C1_ArityContract ==
    pc # "call" =>
        /\ Len(filenames) # 2 =>
              /\ pc = "raised" /\ ret.exc = "ValueError"
              /\ ret.basenames = <<>> /\ ret.exts = <<>>
        /\ Len(filenames) = 2 =>
              /\ pc = "returned" /\ ret.exc = "none"
              /\ ret.val \in BOOLEAN

C1_Witness ==
    /\ pc = "raised" /\ Len(filenames) = 3
    /\ is_similar_filename(SubSeq(filenames, 1, 2)).val

\* the extension as written, the text from the last "." of the last path
\* component on, when something other than dots precedes it there
LastPos(s, c) ==
    IF \E i \in 1..Len(s) : s[i] = c
    THEN CHOOSE i \in 1..Len(s) : s[i] = c /\ \A j \in (i + 1)..Len(s) : s[j] # c
    ELSE 0
LastComponent(f) == SubSeq(f, LastPos(f, "/") + 1, Len(f))
RawExt(f) ==
    LET b == LastComponent(f)
        d == LastPos(b, ".")
    IN  IF d > 1 /\ \E i \in 1..(d - 1) : b[i] # "." THEN SubSeq(b, d, Len(b)) ELSE <<>>

\* C2: is_similar_filename([a, b]) is true exactly when both canonical
\* basenames are non-empty, they are equal (case-sensitively) and the
\* lowercased extensions differ; so it is false for [f, f], for extensions
\* that differ in letter case only and for basenames that differ in letter
\* case only.
C2_Decision ==
    pc = "returned" =>
        LET a == filenames[1]
            b == filenames[2]
            ca == canonical_basename(a)
            cb == canonical_basename(b)
        IN  /\ ret.val <=> (/\ ca # <<>> /\ cb # <<>>
                            /\ ca = cb
                            /\ lower(RawExt(a)) # lower(RawExt(b)))
            /\ a = b => ~ret.val
            /\ lower(RawExt(a)) = lower(RawExt(b)) => ~ret.val
            /\ (ca # cb /\ lower(ca) = lower(cb)) => ~ret.val

C2_Witness ==
    /\ pc = "returned" /\ ret.val
    /\ filenames = <<<<"I","M","G","1","2","3",".","J","P","G">>, <<"I","M","G","1","2","3",".","r","a","w">>>>

-----------------------------------------------------------------------------
(* The canonical basename                                                  *)

\* the stem: the last path component without its final extension
Stem(f) ==
    LET b == LastComponent(f)
    IN  SubSeq(b, 1, Len(b) - Len(RawExt(f)))

\* s starts with i letters, "_", eight digits, "_" and j digits
DevicePrefix(s, i, j) ==
    /\ i >= 1 /\ j >= 1 /\ Len(s) >= i + 10 + j
    /\ \A q \in 1..i : s[q] \in Letters
    /\ s[i + 1] = "_"
    /\ \A q \in (i + 2)..(i + 9) : s[q] \in Digits
    /\ s[i + 10] = "_"
    /\ \A q \in (i + 11)..(i + 10 + j) : s[q] \in Digits

\* c is what precedes the first "." or "-" of s (s itself if it has neither)
BeforeFirstDelimiter(s, c) ==
    /\ Len(c) <= Len(s) /\ c = SubSeq(s, 1, Len(c))
    /\ \A q \in 1..Len(c) : c[q] \notin {".", "-"}
    /\ Len(c) < Len(s) => s[Len(c) + 1] \in {".", "-"}

PixelOriginal == <<"P","X","L","_","2","0","2","5","0","6","1","5","_","1","4","3","6","2","1","0","2","5",".","R","A","W","-","0","2",".","O","R","I","G","I","N","A","L",".","d","n","g">>
PixelCover == <<"P","X","L","_","2","0","2","5","0","6","1","5","_","1","4","3","6","2","1","0","2","5",".","R","A","W","-","0","1",".","C","O","V","E","R",".","j","p","g">>
PixelCanonical == <<"P","X","L","_","2","0","2","5","0","6","1","5","_","1","4","3","6","2","1","0","2","5">>
DscEdit == <<"D","S","C","0","0","0","1","-","e","d","i","t",".","t","i","f">>
DscJpg == <<"D","S","C","0","0","0","1",".","j","p","g">>

\* C3: the canonical basename of a filename is the device-timestamp prefix
\* of its stem (letters, "_", exactly 8 digits, "_", digits, to the end of
\* the digits) when the stem starts with one, and otherwise what precedes
\* the first "." or "-" of the stem; it is empty for an empty stem.  The two
\* Pixel variants and the two DSC0001 files of the tests match.
C3_Canonical ==
    pc # "canon" =>
        LET s == Stem(filename)
            n == Len(s)
        IN  /\ (\E i, j \in 1..n : DevicePrefix(s, i, j)) =>
                  \E i, j \in 1..n :
                      /\ DevicePrefix(s, i, j)
                      /\ ~DevicePrefix(s, i, j + 1)
                      /\ canon = SubSeq(s, 1, i + 10 + j)
            /\ ~(\E i, j \in 1..n : DevicePrefix(s, i, j)) =>
                  BeforeFirstDelimiter(s, canon)
            /\ s = <<>> => canon = <<>>
            /\ filename \in {PixelOriginal, PixelCover} =>
                  /\ canon = PixelCanonical
                  /\ is_similar_filename(<<PixelOriginal, PixelCover>>).val
            /\ filename \in {DscEdit, DscJpg} =>
                  /\ canon = <<"D","S","C","0","0","0","1">>
                  /\ is_similar_filename(<<DscEdit, DscJpg>>).val

\* a device-timestamp prefix followed by more of the stem
C3_Witness ==
    /\ pc = "recanon"
    /\ filename = <<"X","_","2","0","2","5","0","6","1","7","_","7","a">>
    /\ canon = <<"X","_","2","0","2","5","0","6","1","7","_","7">>

\* C4: canonicalizing a canonical basename gives it back, whichever branch
\* produced it.
C4_Idempotent == pc = "returned" => recanon = canon

\* a result of the fallback branch that lost a suffix
C4_Witness ==
    /\ pc = "returned"
    /\ filename = <<"a","-","a","-","a">>
    /\ canon = <<"a">> /\ recanon = <<"a">>

-----------------------------------------------------------------------------
(* filter_dupe_pairs                                                       *)

\* the name of an asset: its original path if it has a non-empty one, else
\* its filename if it has a non-empty one, else the empty string
NameOf(asset) ==
    IF "originalPath" \in DOMAIN asset /\ asset["originalPath"] # <<>>
    THEN asset["originalPath"]
    ELSE IF "filename" \in DOMAIN asset /\ asset["filename"] # <<>>
    THEN asset["filename"]
    ELSE <<>>

AssetsOf(group) == IF "assets" \in DOMAIN group THEN group["assets"] ELSE <<>>

\* the group is a pair whose two names are similar
IsMatch(group) ==
    /\ Len(AssetsOf(group)) = 2
    /\ is_similar_filename(<<NameOf(AssetsOf(group)[1]), NameOf(AssetsOf(group)[2])>>).val

\* the positions of the matching groups, in increasing order
MatchPositions(groups) == {i \in 1..Len(groups) : IsMatch(groups[i])}
Sources(groups) ==
    LET M == MatchPositions(groups)
    IN  [n \in 1..Cardinality(M) |->
            CHOOSE i \in M : Cardinality({j \in M : j <= i}) = n]

Preferred(name) == lower(RawExt(name)) \in PREFERRED_PRIMARY_EXTS

\* C5: in the result of a matching pair the second asset comes first exactly
\* when its lowercased extension is preferred and the first asset's is not;
\* ids, paths and exts are permuted alike, so no result has a preferred
\* extension behind a non-preferred one.
C5_PrimarySelection ==
    pc = "returned" =>
        LET src == Sources(duplicates) IN
        /\ Len(dupe_pairs.val) = Len(src)
        /\ \A n \in 1..Len(dupe_pairs.val) :
              LET a == AssetsOf(duplicates[src[n]])
                  r == dupe_pairs.val[n]
                  n1 == NameOf(a[1])
                  n2 == NameOf(a[2])
                  e1 == lower(RawExt(n1))
                  e2 == lower(RawExt(n2))
              IN  /\ IF Preferred(n2) /\ ~Preferred(n1)
                     THEN /\ r.ids = <<a[2].id, a[1].id>>
                          /\ r.paths = <<n2, n1>>
                          /\ r.exts = <<e2, e1>>
                     ELSE /\ r.ids = <<a[1].id, a[2].id>>
                          /\ r.paths = <<n1, n2>>
                          /\ r.exts = <<e1, e2>>
                  /\ ~(r.exts[2] \in PREFERRED_PRIMARY_EXTS
                       /\ r.exts[1] \notin PREFERRED_PRIMARY_EXTS)

\* a pair given as (raw, JPEG) and a pair of two preferred extensions
C5_Witness ==
    /\ pc = "returned"
    /\ duplicates = <<Group(<<assetB, assetA>>), Group(<<assetC, assetA>>)>>
    /\ dupe_pairs.val[1].ids = <<assetA.id, assetB.id>>
    /\ dupe_pairs.val[2].ids = <<assetC.id, assetA.id>>

\* C6: filter_dupe_pairs gives one result for each group of exactly two
\* assets whose names are similar and none for any other group, in the order
\* of the groups.
C6_OneResultPerMatch ==
    pc = "returned" =>
        LET src == Sources(duplicates) IN
        /\ Len(dupe_pairs.val) = Len(src)
        /\ \A n \in 1..Len(dupe_pairs.val) :
              LET a == AssetsOf(duplicates[src[n]])
                  r == dupe_pairs.val[n]
              IN  /\ r.ids \in {<<a[1].id, a[2].id>>, <<a[2].id, a[1].id>>}
                  /\ r.paths \in {<<NameOf(a[1]), NameOf(a[2])>>,
                                  <<NameOf(a[2]), NameOf(a[1])>>}

\* two matching groups in a row, of different assets
C6_Witness ==
    /\ pc = "returned"
    /\ Len(duplicates) = 2 /\ Len(dupe_pairs.val) = 2
    /\ dupe_pairs.val[1].ids = <<assetA.id, assetD.id>>
    /\ dupe_pairs.val[2].ids = <<assetC.id, assetB.id>>

\* what filter_dupe_pairs gives for each group on its own, put together
RECURSIVE EachAlone(_)
EachAlone(groups) ==
    IF groups = <<>> THEN <<>>
    ELSE filter_dupe_pairs(<<Head(groups)>>).val \o EachAlone(Tail(groups))

\* C7: filter_dupe_pairs raises on no list of groups (so never the
\* ValueError of is_similar_filename): a group of another size than two, a
\* group without "assets" and a pair with a nameless asset are passed over,
\* and the result is made of what each group gives on its own.
C7_NeverRaises ==
    pc # "call" =>
        /\ pc = "returned" /\ dupe_pairs.exc = "none"
        /\ dupe_pairs.val = EachAlone(duplicates)
        /\ \A i \in 1..Len(duplicates) :
              LET a == AssetsOf(duplicates[i])
              IN  (Len(a) # 2 \/ \E j \in 1..Len(a) : NameOf(a[j]) = <<>>)
                      => filter_dupe_pairs(<<duplicates[i]>>) = NoPairs

\* a group of three assets before a pair that matches
C7_Witness ==
    /\ pc = "returned"
    /\ duplicates = <<Cluster(3), Group(<<assetB, assetA>>)>>
    /\ Len(dupe_pairs.val) = 1

\* the groups with the filename of every asset that has a non-empty original
\* path set to x, or removed when x is None
WithFilename(asset, x) ==
    IF "originalPath" \in DOMAIN asset /\ asset["originalPath"] # <<>>
    THEN [f \in (DOMAIN asset \ {"filename"}) \cup (IF x = None THEN {} ELSE {"filename"}) |->
             IF f = "filename" THEN x ELSE asset[f]]
    ELSE asset
Refiled(groups, x) ==
    [i \in 1..Len(groups) |->
        IF "assets" \in DOMAIN groups[i]
        THEN Group([j \in 1..Len(groups[i]["assets"]) |-> WithFilename(groups[i]["assets"][j], x)])
        ELSE groups[i]]

\* C9: the paths of every result are the names of the two assets (original
\* path, else filename, else empty), and the filename of an asset that has
\* a non-empty original path changes nothing in the result.
C9_EffectiveName ==
    pc = "returned" =>
        LET src == Sources(duplicates) IN
        /\ Len(dupe_pairs.val) = Len(src)
        /\ \A n \in 1..Len(dupe_pairs.val) :
              LET a == AssetsOf(duplicates[src[n]])
                  r == dupe_pairs.val[n]
              IN  /\ {r.paths[1], r.paths[2]} = {NameOf(a[1]), NameOf(a[2])}
                  /\ r.exts = <<lower(RawExt(r.paths[1])), lower(RawExt(r.paths[2]))>>
        /\ \A x \in {None, <<"a",".","c","r","2">>} :
              filter_dupe_pairs(Refiled(duplicates, x)) = dupe_pairs

\* a pair that matches by the original path of an asset whose filename is
\* another file, and by the filename of an asset whose original path is empty
C9_Witness ==
    /\ pc = "returned"
    /\ duplicates = <<Group(<<assetA, assetB>>), Group(<<assetC, assetD>>)>>
    /\ dupe_pairs.val[1].paths = <<assetA.originalPath, assetB.originalPath>>
    /\ dupe_pairs.val[2].paths = <<assetC.filename, assetD.filename>>

-----------------------------------------------------------------------------
(* The album feed                                                          *)

\* s lists the assets of the album, each once, by non-decreasing original path
SortedAlbum(s) ==
    /\ Len(s) = Len(album)
    /\ Range(s) = Range(album)
    /\ \A i \in 1..(Len(s) - 1) : ~StrLess(s[i + 1].originalPath, s[i].originalPath)

\* the number of groups that hold the asset
GroupsHolding(asset) ==
    Cardinality({i \in 1..Len(duplicates) :
                    asset \in {duplicates[i].assets[1], duplicates[i].assets[2]}})

\* C8: for an album of n assets get_assets_in_album returns n-1 groups (none
\* for n = 0), group i holding the i-th and the (i+1)-th asset in the order
\* of their original paths; no asset is in more than two groups, and only
\* the first and the last of that order are in exactly one.
C8_AdjacentPairs ==
    pc = "returned" =>
        LET n == Len(album)
        IN  /\ Len(duplicates) = IF n >= 1 THEN n - 1 ELSE 0
            /\ \E s \in [1..n -> Range(album)] :
                  /\ SortedAlbum(s)
                  /\ \A i \in 1..(n - 1) :
                        /\ Len(duplicates[i].assets) = 2
                        /\ duplicates[i].assets = <<s[i], s[i + 1]>>
                  /\ \A i \in 1..n :
                        /\ GroupsHolding(s[i]) <= 2
                        /\ GroupsHolding(s[i]) = 1 => i \in {1, n}

\* four assets listed out of order, two of them with the same original path
C8_Witness ==
    /\ pc = "returned"
    /\ album = <<assetA, assetG, assetB, assetH>>
    /\ Len(duplicates) = 3
    /\ duplicates[1].assets = <<assetH, assetG>>
    /\ duplicates[2].assets = <<assetG, assetB>>
    /\ duplicates[3].assets = <<assetB, assetA>>

-----------------------------------------------------------------------------
(* The stack requests of the main program                                  *)

\* C10: under --dry-run no stack request is sent; under --stack the requests
\* sent are the ids of the results of filter_dupe_pairs, one per result and
\* in their order, all of them once the program is done; and none is sent
\* before every candidate is fetched and filter_dupe_pairs has run.
C10_StackRequests ==
    /\ args.dry_run => sent = <<>>
    /\ pc \notin {"pairs", "done", "failed"} => sent = <<>>
    /\ sent # <<>> =>
          /\ todo = <<>>
          /\ dupe_pairs = filter_dupe_pairs(duplicates)
    /\ Len(sent) <= Len(dupe_pairs.val)
    /\ \A i \in 1..Len(sent) : sent[i] = dupe_pairs.val[i].ids
    /\ (pc = "pairs" /\ ~args.dry_run) => Len(sent) = k
    /\ (pc = "done" /\ ~args.dry_run) => Len(sent) = Len(dupe_pairs.val)

\* a run under --stack that sent two different requests, the first with the
\* second asset of its group as the primary
C10_Witness ==
    /\ pc = "done" /\ ~args.dry_run
    /\ duplicates = <<Group(<<assetB, assetA>>), Group(<<assetC, assetD>>)>>
    /\ sent = <<<<assetA.id, assetB.id>>, <<assetC.id, assetD.id>>>>

=============================================================================
